---- MODULE Spec2Model ----
(***************************************************************************)
(* Model of the BGCR-Budyko monthly evaporation solver of PET-CR           *)
(* (bgcr-budyko/bgcr_budyko and its copy petcr/bgcr_model.py).             *)
(*                                                                         *)
(* Every public operation is a stateless call on NumPy arrays.  A state of *)
(* the model is one call: its name, its argument arrays and, once the call *)
(* has run (pc = "done"), the arrays it returned or the exception raised.  *)
(*                                                                         *)
(* Numbers.  A float is modelled in fixed point: the integer v stands for  *)
(* the real v / SC.  Magnitudes the fixed point cannot hold are kept as    *)
(* IEEE-like tokens: HUGE (a finite value far beyond the fixed-point       *)
(* range, such as a / 1e-12), FltMax (a finite double within a factor 1e12 *)
(* of the largest one, such as 1e300), PosInf, NegInf and NaN.  They are   *)
(* ordered as the values they stand for:                                   *)
(* NegInf < -FltMax < -HUGE < ordinary < HUGE < FltMax < PosInf.           *)
(*                                                                         *)
(* Arrays.  An ndarray is [shape |-> <<d1, ..., dn>>, data |-> row-major   *)
(* sequence]; a 0-d array (a scalar) has shape << >> and one datum.        *)
(***************************************************************************)
EXTENDS Integers, Sequences, FiniteSets, TLC

VARIABLES pc, op, args, result, err

vars == <<pc, op, args, result, err>>

-----------------------------------------------------------------------------
(* Fixed-point floats *)

SC == 10^3
HUGE == 10^8
FltMax == 5 * 10^8
PosInf == 10^9
NegInf == -PosInf
NaN == 2 * 10^9

IsNaN(v) == v = NaN
IsOrd(v) == v > -HUGE /\ v < HUGE
IsReal(v) == v > NegInf /\ v < PosInf

Sign(v) == IF v > 0 THEN 1 ELSE IF v < 0 THEN -1 ELSE 0
Abs(v) == IF v < 0 THEN -v ELSE v

\* round-half-up integer quotient n / d, d > 0
RoundDiv(n, d) == (2 * n + d) \div (2 * d)

\* a + b
FAdd(a, b) ==
    IF IsNaN(a) \/ IsNaN(b) THEN NaN
    ELSE IF Abs(a) = PosInf \/ Abs(b) = PosInf
         THEN IF Abs(a) = PosInf /\ Abs(b) = PosInf /\ a # b THEN NaN
              ELSE IF Abs(a) = PosInf THEN a ELSE b
    ELSE IF Abs(a) = HUGE THEN a
    ELSE IF Abs(b) = HUGE THEN b
    ELSE a + b

FNeg(a) == IF IsNaN(a) THEN NaN ELSE -a

\* a - b
FSub(a, b) == FAdd(a, FNeg(b))

\* a * b
FMul(a, b) ==
    IF IsNaN(a) \/ IsNaN(b) THEN NaN
    ELSE IF Abs(a) = PosInf \/ Abs(b) = PosInf
         THEN IF a = 0 \/ b = 0 THEN NaN ELSE Sign(a) * Sign(b) * PosInf
    ELSE IF Abs(a) = HUGE \/ Abs(b) = HUGE
         THEN Sign(a) * Sign(b) * HUGE
    ELSE RoundDiv(a * b, SC)

\* a / b, NumPy true division: x/0 is +-inf, 0/0 is nan (a warning, no exception)
FDiv(a, b) ==
    IF IsNaN(a) \/ IsNaN(b) THEN NaN
    ELSE IF b = 0
         THEN IF a = 0 THEN NaN ELSE Sign(a) * PosInf
    ELSE IF Abs(a) = PosInf
         THEN IF Abs(b) = PosInf THEN NaN ELSE Sign(a) * Sign(b) * PosInf
    ELSE IF Abs(b) = PosInf THEN 0
    ELSE IF Abs(a) = HUGE THEN Sign(a) * Sign(b) * HUGE
    ELSE IF Abs(b) = HUGE THEN 0
    ELSE Sign(b) * RoundDiv(a * SC, Abs(b))

\* a * b and a / b for ordinary operands whose fixed-point product a * b or
\* a * SC is beyond the integer range: a >= 0 is split at SC; b >= SC * SC is
\* first brought down by SC
FMulW(a, b) == (a \div SC) * b + RoundDiv((a % SC) * b, SC)
FDivW(a, b) == RoundDiv(a, RoundDiv(b, SC))

\* np.maximum / np.minimum: a NaN operand gives NaN
FMax(a, b) == IF IsNaN(a) \/ IsNaN(b) THEN NaN ELSE IF a >= b THEN a ELSE b
FMin(a, b) == IF IsNaN(a) \/ IsNaN(b) THEN NaN ELSE IF a <= b THEN a ELSE b

\* floor of the square root of the natural number n, by bisection on [lo, hi)
RECURSIVE ISqrtIn(_, _, _)
ISqrtIn(n, lo, hi) ==
    IF hi - lo <= 1 THEN lo
    ELSE LET mid == (lo + hi) \div 2
         IN IF mid * mid <= n THEN ISqrtIn(n, mid, hi) ELSE ISqrtIn(n, lo, mid)

\* np.sqrt on a fixed-point value (also x ** 0.5), rounded to nearest
FSqrt(a) ==
    CASE IsNaN(a) \/ a < 0 -> NaN
      [] a = PosInf -> PosInf
      [] a >= 0 /\ IsOrd(a) ->
            LET r == ISqrtIn(a * SC, 0, 46341)
            IN IF a * SC - r * r > r THEN r + 1 ELSE r

\* 2^k for a natural k
RECURSIVE Pow2(_)
Pow2(k) == IF k = 0 THEN 1 ELSE 2 * Pow2(k - 1)

\* ln 2 in fixed point
Ln2 == 693

\* the Taylor series of exp(r) for 0 <= r < ln 2: the sum of the terms from
\* the n-th one, t, onwards
RECURSIVE ExpSeries(_, _, _)
ExpSeries(r, t, n) == IF t = 0 THEN 0 ELSE t + ExpSeries(r, RoundDiv(t * r, (n + 1) * SC), n + 1)

\* np.exp: exp(x) = 2^k * exp(r) with x = k ln 2 + r; a result beyond the
\* fixed-point range is HUGE
FExp(x) ==
    IF IsNaN(x) THEN NaN
    ELSE IF x = PosInf THEN PosInf
    ELSE IF x = NegInf THEN 0
    ELSE LET k == IF x >= 0 THEN x \div Ln2 ELSE -((-x + Ln2 - 1) \div Ln2)
             m == ExpSeries(x - k * Ln2, SC, 0)
         IN IF k > 16 THEN HUGE
            ELSE IF k < -30 THEN 0
            ELSE IF k >= 0 THEN (IF m * Pow2(k) >= HUGE THEN HUGE ELSE m * Pow2(k))
            ELSE RoundDiv(m, Pow2(-k))

\* ln(m) for 1 <= m < 2 (fixed point): 2 (y + y^3/3 + y^5/5 + y^7/7) with
\* y = (m - 1)/(m + 1)
LnMantissa(m) ==
    LET y == RoundDiv((m - SC) * SC, m + SC)
        y2 == RoundDiv(y * y, SC)
        y3 == RoundDiv(y * y2, SC)
        y5 == RoundDiv(y3 * y2, SC)
        y7 == RoundDiv(y5 * y2, SC)
    IN 2 * y + RoundDiv(2 * y3, 3) + RoundDiv(2 * y5, 5) + RoundDiv(2 * y7, 7)

\* ln(a) for an ordinary a > 0: a is halved or doubled k times into [1, 2)
RECURSIVE LnIn(_, _)
LnIn(a, k) ==
    IF a >= 2 * SC THEN LnIn(RoundDiv(a, 2), k + 1)
    ELSE IF a < SC THEN LnIn(2 * a, k - 1)
    ELSE k * Ln2 + LnMantissa(a)

\* np.log
FLn(a) ==
    IF IsNaN(a) \/ a < 0 THEN NaN
    ELSE IF a = 0 THEN NegInf
    ELSE IF a = PosInf THEN PosInf
    ELSE LnIn(a, 0)

\* np.power(a, e) for an ordinary base and exponent other than the exact
\* cases of FPow: exp(e ln a) for a > 0, 0^e, and nan for a negative base
\* with a fractional exponent
FPowGeneral(a, e) ==
    CASE a > 0 /\ IsOrd(a) /\ IsOrd(e) -> FExp(RoundDiv(e * FLn(a), SC))
      [] a = 0 /\ IsOrd(e) -> IF e > 0 THEN 0 ELSE PosInf
      [] a < 0 /\ IsOrd(a) /\ IsOrd(e) /\ e % SC # 0 -> NaN

\* np.power(a, e): exact for the exponents -1, 0, 1/4, 1/2, 1, 3/2, 2, 3, 4 and
\* inf, through exp and ln otherwise
FPow(a, e) ==
    CASE IsNaN(a) \/ IsNaN(e) -> NaN
      [] ~IsNaN(a) /\ e = 0 -> SC
      [] ~IsNaN(a) /\ e = PosInf ->
            IF Abs(a) > SC THEN PosInf ELSE IF Abs(a) = SC THEN SC ELSE 0
      [] ~IsNaN(a) /\ e = SC -> a
      [] ~IsNaN(a) /\ e = -SC -> FDiv(SC, a)
      [] ~IsNaN(a) /\ e = 2 * SC -> FMul(a, a)
      [] ~IsNaN(a) /\ e = 3 * SC -> FMul(FMul(a, a), a)
      [] ~IsNaN(a) /\ e = 4 * SC -> FMul(FMul(a, a), FMul(a, a))
      [] ~IsNaN(a) /\ e = SC \div 2 -> FSqrt(a)
      [] ~IsNaN(a) /\ e = SC \div 4 -> FSqrt(FSqrt(a))
      [] ~IsNaN(a) /\ e = (3 * SC) \div 2 -> FMul(a, FSqrt(a))
      [] OTHER -> FPowGeneral(a, e)

\* pi / 2 in fixed point
HalfPi == 3142 \div 2

\* np.sin for |t| <= pi/2: Taylor polynomial t - t^3/3! + t^5/5! - t^7/7!
FSin(t) ==
    IF IsNaN(t) THEN NaN
    ELSE LET t2 == FMul(t, t)
             t3 == FMul(t2, t)
             t5 == FMul(t3, t2)
             t7 == FMul(t5, t2)
         IN t - RoundDiv(t3, 6) + RoundDiv(t5, 120) - RoundDiv(t7, 5040)

\* largest angle in [lo, hi) whose sine does not exceed v
RECURSIVE ArcsinIn(_, _, _)
ArcsinIn(v, lo, hi) ==
    IF hi - lo <= 1 THEN lo
    ELSE LET mid == (lo + hi) \div 2
         IN IF FSin(mid) <= v THEN ArcsinIn(v, mid, hi) ELSE ArcsinIn(v, lo, mid)

\* np.arcsin: nan outside [-1, 1], exactly +-pi/2 at +-1
FArcsin(v) ==
    IF IsNaN(v) \/ v > SC \/ v < -SC THEN NaN
    ELSE IF v = SC THEN HalfPi
    ELSE IF v = -SC THEN -HalfPi
    ELSE ArcsinIn(v, -HalfPi, HalfPi)

-----------------------------------------------------------------------------
(* NumPy arrays: shapes, broadcasting, reductions *)

RECURSIVE Prod(_)
Prod(s) == IF s = << >> THEN 1 ELSE Head(s) * Prod(Tail(s))

Scalar(v) == [shape |-> << >>, data |-> <<v>>]

\* shape s viewed with n dimensions: leading axes of length 1 are prepended
Pad(s, n) == [i \in 1..n |-> IF i <= n - Len(s) THEN 1 ELSE s[i - (n - Len(s))]]

MaxOf(a, b) == IF a >= b THEN a ELSE b

\* NumPy's broadcasting rule: aligned from the right, each pair of lengths
\* is equal or one of them is 1
Broadcastable(s, t) ==
    LET n == MaxOf(Len(s), Len(t))
    IN \A i \in 1..n : Pad(s, n)[i] = Pad(t, n)[i] \/ Pad(s, n)[i] = 1 \/ Pad(t, n)[i] = 1

\* mutant: the result takes the shape of the second operand
BroadcastShape_second(s, t) == t

BroadcastShape(s, t) ==
    LET n == MaxOf(Len(s), Len(t))
    IN [i \in 1..n |-> IF Pad(s, n)[i] = 1 THEN Pad(t, n)[i] ELSE Pad(s, n)[i]]

\* the broadcast of several shapes, and whether it exists
RECURSIVE BroadcastShapes(_)
BroadcastShapes(ss) ==
    IF Len(ss) = 1 THEN ss[1] ELSE BroadcastShape(ss[1], BroadcastShapes(Tail(ss)))

RECURSIVE BroadcastableAll(_)
BroadcastableAll(ss) ==
    \/ Len(ss) <= 1
    \/ /\ BroadcastableAll(Tail(ss))
       /\ Broadcastable(ss[1], BroadcastShapes(Tail(ss)))

\* product of the lengths of the axes after axis i
Stride(s, i) == Prod(SubSeq(s, i + 1, Len(s)))

\* 1-based position in an array of shape s of the element that the 0-based
\* flat index k of the broadcast result of shape r reads
BroadcastIndex(k, r, s) ==
    LET n == Len(r)
        ps == Pad(s, n)
        RECURSIVE Off(_)
        Off(i) == IF i > n THEN 0
                  ELSE (IF ps[i] = 1 THEN 0
                        ELSE ((k \div Stride(r, i)) % r[i]) * Stride(ps, i)) + Off(i + 1)
    IN Off(1) + 1

At(A, k, r) == A.data[BroadcastIndex(k, r, A.shape)]

\* the sequence <<f[1], ..., f[n]>>, each element computed once
Strict(f, n) ==
    LET RECURSIVE Go(_)
        Go(i) == IF i = 0 THEN << >> ELSE Append(Go(i - 1), f[i])
    IN Go(n)

\* the operands of an elementwise binary operation, broadcast together:
\* element k holds the pair of values the operation combines
Zip(A, B) ==
    LET pairs(r) ==
            [shape |-> r,
             data |-> Strict([k \in 1..Prod(r) |-> <<At(A, k - 1, r), At(B, k - 1, r)>>], Prod(r))]
    IN pairs(BroadcastShape(A.shape, B.shape))

\* A - B, A * B, A / B elementwise
ArrSub(A, B) ==
    LET elementwise(Z) ==
            [shape |-> Z.shape, data |-> Strict([k \in DOMAIN Z.data |-> FSub(Z.data[k][1], Z.data[k][2])], Len(Z.data))]
    IN elementwise(Zip(A, B))

ArrMul(A, B) ==
    LET elementwise(Z) ==
            [shape |-> Z.shape, data |-> Strict([k \in DOMAIN Z.data |-> FMul(Z.data[k][1], Z.data[k][2])], Len(Z.data))]
    IN elementwise(Zip(A, B))

ArrDiv(A, B) ==
    LET elementwise(Z) ==
            [shape |-> Z.shape, data |-> Strict([k \in DOMAIN Z.data |-> FDiv(Z.data[k][1], Z.data[k][2])], Len(Z.data))]
    IN elementwise(Zip(A, B))

\* np.abs(A)
ArrAbs(A) == [shape |-> A.shape, data |-> Strict([k \in DOMAIN A.data |-> Abs(A.data[k])], Len(A.data))]

\* shape s without its axis ax, or with that axis of length 1 (keepdims)
DropAxis(s, ax) == SubSeq(s, 1, ax - 1) \o SubSeq(s, ax + 1, Len(s))
KeepAxis(s, ax) == [i \in 1..Len(s) |-> IF i = ax THEN 1 ELSE s[i]]

\* np.sum(A, axis) over the 1-based axis ax
SumAxis(A, ax, keepdims) ==
    LET s == A.shape
        inner == Stride(s, ax)
        RECURSIVE Acc(_, _, _)
        Acc(o, i, m) == IF m = 0 THEN 0
                        ELSE FAdd(Acc(o, i, m - 1), A.data[(o * s[ax] + (m - 1)) * inner + i + 1])
    IN [shape |-> IF keepdims THEN KeepAxis(s, ax) ELSE DropAxis(s, ax),
        data |-> Strict([k \in 1..(Prod(s) \div s[ax]) |->
                            Acc((k - 1) \div inner, (k - 1) % inner, s[ax])],
                        Prod(s) \div s[ax])]

\* A.squeeze(ax) of an axis of length 1
Squeeze(A, ax) == [shape |-> DropAxis(A.shape, ax), data |-> A.data]

\* np.mean(A, axis=0)
MeanAxis0(A) == ArrDiv(SumAxis(A, 1, FALSE), Scalar(A.shape[1] * SC))

\* a > b: False when an operand is NaN
FGreater(a, b) == ~IsNaN(a) /\ ~IsNaN(b) /\ a > b

\* A > b for a scalar b: an array of booleans
ArrGreater(A, b) == [shape |-> A.shape, data |-> Strict([k \in DOMAIN A.data |-> FGreater(A.data[k], b)], Len(A.data))]

\* np.where(C, A, b) with an array condition, an array A and a scalar b
Where(C, A, b) ==
    LET elementwise(Z) ==
            [shape |-> Z.shape,
             data |-> Strict([k \in DOMAIN Z.data |-> IF Z.data[k][1] THEN Z.data[k][2] ELSE b], Len(Z.data))]
    IN elementwise(Zip(C, A))

\* an array of shape s whose k-th element (row-major) is vals[((i0 + k) % Len(vals)) + 1]
Fill(s, vals, i0) ==
    [shape |-> s, data |-> [k \in 1..Prod(s) |-> vals[((i0 + k - 1) % Len(vals)) + 1]]]

-----------------------------------------------------------------------------
(* utils/maths.py *)

\* mutant: the lower bound is not applied
clampV_no_lower(v, lo, hi) == FMin(v, hi)

\* clamp(x, lo, hi) with both bounds given: np.minimum(np.maximum(x, lo), hi)
clampV(v, lo, hi) == FMin(FMax(v, lo), hi)

clamp(x, lo, hi) == [shape |-> x.shape, data |-> Strict([k \in DOMAIN x.data |-> clampV(x.data[k], lo, hi)], Len(x.data))]

\* a / (b + eps), eps = 1e-12.  eps is far below the fixed-point resolution:
\* it only matters when b is 0, where the quotient is a * 1e12: finite for
\* an ordinary a, overflowing to +-inf (a RuntimeWarning, no exception) for
\* a near the largest double.
safe_divV(a, b) ==
    IF b = 0
    THEN IF IsNaN(a) THEN NaN
         ELSE IF Abs(a) = PosInf \/ Abs(a) = FltMax THEN Sign(a) * PosInf
         ELSE Sign(a) * HUGE
    ELSE FDiv(a, b)

safe_div(a, b) ==
    LET elementwise(Z) ==
            [shape |-> Z.shape, data |-> Strict([k \in DOMAIN Z.data |-> safe_divV(Z.data[k][1], Z.data[k][2])], Len(Z.data))]
    IN elementwise(Zip(a, b))

\* mutant: the arcsine argument is not clipped
clip_tmp_absent(tmp) == tmp

\* np.clip(tmp, -1.0, 1.0)
clip_tmp(tmp) == clampV(tmp, -SC, SC)

\* cubic_root_trig on one element
cubic_root_trigV(z) ==
    LET p == FDiv(-4 * SC, 3 * SC)
        q == FAdd(FDiv(-16 * SC, 27 * SC), z)
        tmp0 == FDiv(FMul(FDiv(FMul(3 * SC, FSqrt(3 * SC)), 2 * SC), q),
                     FPow(FNeg(p), (3 * SC) \div 2))
        tmp == clip_tmp(tmp0)
        theta == FMul(FDiv(SC, 3 * SC), FArcsin(tmp))
        x == FAdd(FMul(FDiv(2 * SC, FSqrt(3 * SC)), FSin(theta)), FDiv(2 * SC, 3 * SC))
    IN clampV(x, 0, 2 * SC)

cubic_root_trig(z) == [shape |-> z.shape, data |-> Strict([k \in DOMAIN z.data |-> cubic_root_trigV(z.data[k])], Len(z.data))]

-----------------------------------------------------------------------------
(* models/bgcr.py *)

\* 1.0 + Phi - np.power(1.0 + np.power(Phi, w), 1.0/w) on one element.
\* For Phi = P / 1e-12 (Epa = 0, P > 0) the two terms are both of the order
\* of Phi and the fixed point cannot subtract them: the difference is then
\* 1 - Phi^(1-w)/w + ..., that is 1 for w > 1, 0 for w = 1 and a large
\* negative value for 0 < w < 1.
residualV(Phi, w) ==
    IF Phi = HUGE /\ w > 0 /\ IsOrd(w)
    THEN IF w > SC THEN SC ELSE IF w = SC THEN 0 ELSE -HUGE
    ELSE FSub(FAdd(SC, Phi), FPow(FAdd(SC, FPow(Phi, w)), FDiv(SC, w)))

residual(Phi, w) ==
    LET elementwise(Z) ==
            [shape |-> Z.shape, data |-> Strict([k \in DOMAIN Z.data |-> residualV(Z.data[k][1], Z.data[k][2])], Len(Z.data))]
    IN elementwise(Zip(Phi, w))

\* mutant: the residual is returned without the clamp to [0, 1]
budyko_ratio_unclamped(P, Epa, w) == residual(safe_div(P, Epa), w)

\* mutant: the dryness ratio is taken as Epa / P
budyko_ratio_inverted(P, Epa, w) == clamp(residual(safe_div(Epa, P), w), 0, SC)

budyko_tixeront_fu_ratio(P, Epa, w) ==
    LET Phi == safe_div(P, Epa)
        y == residual(Phi, w)
    IN clamp(y, 0, SC)

\* mutant: the cubic solver is fed the clamped ratio
beta_c_from_cubic_clamped(P, Epa, Erad, w) ==
    LET outputs(x) == <<ArrMul(safe_div(Epa, Erad), x), x>>
    IN outputs(cubic_root_trig(clamp(residual(safe_div(P, Epa), w), 0, SC)))

\* returns <<beta_c, x>>
beta_c_from_cubic(P, Epa, Erad, w) ==
    LET Phi == safe_div(P, Epa)
        z == residual(Phi, w)
        outputs(x) == <<ArrMul(safe_div(Epa, Erad), x), x>>
    IN outputs(cubic_root_trig(z))

\* mutant: a negative precipitation is rejected
bgcr_monthly_raises_on_negative(P, Epa, Erad, w) ==
    \/ ~BroadcastableAll(<<P.shape, Epa.shape, Erad.shape, w.shape>>)
    \/ \E k \in DOMAIN P.data : P.data[k] < 0

\* NumPy raises ValueError when two operands of an elementwise operation
\* cannot be broadcast together
bgcr_monthly_raises(P, Epa, Erad, w) ==
    \/ ~Broadcastable(P.shape, Epa.shape)
    \/ ~Broadcastable(BroadcastShape(P.shape, Epa.shape), w.shape)
    \/ ~Broadcastable(Epa.shape, Erad.shape)
    \/ ~Broadcastable(BroadcastShape(Epa.shape, Erad.shape),
                      BroadcastShape(BroadcastShape(P.shape, Epa.shape), w.shape))

\* returns [err, ret] with ret = <<E, beta_c, x, ratio>>
\* mutant: the evaporation is scaled by the radiation term
bgcr_monthly_scaled_by_Erad(P, Epa, Erad, w) ==
    IF bgcr_monthly_raises(P, Epa, Erad, w)
    THEN [err |-> "ValueError", ret |-> << >>]
    ELSE LET outputs(bx, y) == [err |-> "none", ret |-> <<ArrMul(y, Erad), bx[1], bx[2], y>>]
         IN outputs(beta_c_from_cubic(P, Epa, Erad, w), budyko_tixeront_fu_ratio(P, Epa, w))

bgcr_monthly(P, Epa, Erad, w) ==
    IF bgcr_monthly_raises(P, Epa, Erad, w)
    THEN [err |-> "ValueError", ret |-> << >>]
    ELSE LET outputs(bx, y) == [err |-> "none", ret |-> <<ArrMul(y, Epa), bx[1], bx[2], y>>]
         IN outputs(beta_c_from_cubic(P, Epa, Erad, w), budyko_tixeront_fu_ratio(P, Epa, w))

-----------------------------------------------------------------------------
(* models/penman.py.  Energies (Rn, G, Le) are counted in MJ, so that the     *)
(* latent heat 2.45e6 J/kg is 2.45 and fits the fixed point.                 *)

\* slope_svpc on one element, for an ordinary temperature:
\* es = 0.6108 * exp(17.27 * T / (T + 237.3)); 4098 * es / (T + 237.3)**2
slope_svpcV(T) ==
    CASE IsNaN(T) -> NaN
      [] IsOrd(T) /\ T > -237300 ->
            LET d == T + 237300
                es == FMul(611, FExp(FDiv(FMul(17270, T), d)))
            IN FDivW(4098 * es, FMulW(d, d))

\* the literal 2.45e6 of line 38, in MJ
LeLiteral == 2450

\* Erad of penman_components on one element; the argument Le is not used:
\* Qne = (Rn - G) / 2.45e6
penman_EradV(Rn, G, T, gamma, Le) ==
    LET Delta == slope_svpcV(T)
        Qne == FDiv(FSub(Rn, G), LeLiteral)
    IN FMul(FDiv(Delta, FAdd(Delta, gamma)), Qne)

\* Eaero of penman_components on one element
penman_EaeroV(T, U2, ea, es, gamma) ==
    LET Delta == slope_svpcV(T)
        fU == FMul(2600, FAdd(SC, FMul(540, U2)))
    IN FMul(FMul(FDiv(gamma, FAdd(Delta, gamma)), fU), FSub(es, ea))

\* returns [err, ret] with ret = <<Erad, Eaero>>
penman_components(Rn, G, T, U2, ea, es, gamma, Le) ==
    LET sE == <<T.shape, Rn.shape, G.shape>>
        sA == <<T.shape, U2.shape, es.shape, ea.shape>>
    IN IF ~BroadcastableAll(sE) \/ ~BroadcastableAll(sA)
       THEN [err |-> "ValueError", ret |-> << >>]
       ELSE LET rE == BroadcastShapes(sE)
                rA == BroadcastShapes(sA)
                Erad == [shape |-> rE,
                         data |-> Strict([k \in 1..Prod(rE) |->
                                     penman_EradV(At(Rn, k - 1, rE), At(G, k - 1, rE),
                                                  At(T, k - 1, rE), gamma, Le)], Prod(rE))]
                Eaero == [shape |-> rA,
                          data |-> Strict([k \in 1..Prod(rA) |->
                                      penman_EaeroV(At(T, k - 1, rA), At(U2, k - 1, rA),
                                                    At(ea, k - 1, rA), At(es, k - 1, rA), gamma)], Prod(rA))]
            IN [err |-> "none", ret |-> <<Erad, Eaero>>]

\* the defaults gamma=0.066 and Le=2.45e6 of penman_components
gamma_default == 66
Le_default == 2450

\* mutant: the sum keeps its first operand only
ArrAdd_first(A, B) ==
    LET elementwise(Z) ==
            [shape |-> Z.shape, data |-> Strict([k \in DOMAIN Z.data |-> Z.data[k][1]], Len(Z.data))]
    IN elementwise(Zip(A, B))

\* A + B elementwise
ArrAdd(A, B) ==
    LET elementwise(Z) ==
            [shape |-> Z.shape, data |-> Strict([k \in DOMAIN Z.data |-> FAdd(Z.data[k][1], Z.data[k][2])], Len(Z.data))]
    IN elementwise(Zip(A, B))

\* returns [err, ret] with ret = <<Epa, Erad, Eaero>>
epa_from_penman(Rn, G, T, U2, ea, es) ==
    LET outputs(c) ==
            IF c.err # "none" THEN c
            ELSE IF ~Broadcastable(c.ret[1].shape, c.ret[2].shape)
            THEN [err |-> "ValueError", ret |-> << >>]
            ELSE [err |-> "none", ret |-> <<ArrAdd(c.ret[1], c.ret[2]), c.ret[1], c.ret[2]>>]
    IN outputs(penman_components(Rn, G, T, U2, ea, es, gamma_default, Le_default))

-----------------------------------------------------------------------------
(* io/io_helpers.py *)

Months == 12

\* mutant: the month axis is looked for in last place
month_axis_last(shape) == shape[Len(shape)] = Months

\* the check of the month axis: P_monthly.shape[1] (0-based) is 12
month_axis_ok(shape) == shape[2] = Months

\* returns [err, ret] with ret = <<SI>>
seasonal_index(P_monthly) ==
    IF Len(P_monthly.shape) < 2
    THEN [err |-> "IndexError", ret |-> << >>]
    ELSE IF ~month_axis_ok(P_monthly.shape)
    THEN [err |-> "ValueError", ret |-> << >>]
    ELSE LET index(P_annual) ==
                 LET P_mean_month == ArrDiv(P_annual, Scalar(Months * SC))
                     diff == ArrAbs(ArrSub(P_monthly, P_mean_month))
                     SI_year == Where(ArrGreater(P_annual, 0),
                                      ArrDiv(SumAxis(diff, 2, FALSE), Squeeze(P_annual, 2)),
                                      0)
                 IN [err |-> "none", ret |-> <<MeanAxis0(SI_year)>>]
         IN index(SumAxis(P_monthly, 2, TRUE))

-----------------------------------------------------------------------------
(* params/w_schemes.py *)

\* mutant: the intercept 0.214 is dropped
w_from_SIV_no_intercept(si) == FAdd(FNeg(FMul(651, si)), FMul(7350, FMul(si, si)))

\* 0.214 - 0.651*SI + 7.350*np.square(SI) on one element
w_from_SIV(si) == FAdd(FSub(214, FMul(651, si)), FMul(7350, FMul(si, si)))

w_from_SI(SI) == [shape |-> SI.shape, data |-> Strict([k \in DOMAIN SI.data |-> w_from_SIV(SI.data[k])], Len(SI.data))]

\* mutant: the albedo is not clipped
clip_ALB_absent(alb) == alb

\* np.clip(ALB, 1e-3, 1.0)
clip_ALB(alb) == clampV(alb, 1, SC)

\* 0.0175/np.square(ALB) on one element.  The square of an albedo near 1e-3
\* is below the fixed-point resolution, so the quotient is taken on the
\* integers: 0.0175 / (alb/SC)^2 = 17500 * SC / alb^2 in units of 1/SC.
albedo_termV(alb) ==
    IF IsNaN(alb) THEN NaN
    ELSE IF alb = 0 THEN PosInf
    ELSE IF Abs(alb) = PosInf THEN 0
    ELSE RoundDiv(175 * 10^5, alb * alb)

\* 0.5931 + 7.0871*np.power(SI, 3) + 0.0175/np.square(ALB) on one element
w_from_SI_albedoV(si, alb) ==
    FAdd(FAdd(593, FMul(7087, FPow(si, 3 * SC))), albedo_termV(clip_ALB(alb)))

\* returns [err, ret] with ret = <<w>>
w_from_SI_albedo(SI, ALB) ==
    IF ~Broadcastable(SI.shape, ALB.shape)
    THEN [err |-> "ValueError", ret |-> << >>]
    ELSE LET elementwise(Z) ==
                 [err |-> "none",
                  ret |-> <<[shape |-> Z.shape,
                             data |-> Strict([k \in DOMAIN Z.data |-> w_from_SI_albedoV(Z.data[k][1], Z.data[k][2])], Len(Z.data))]>>]
         IN elementwise(Zip(SI, ALB))

-----------------------------------------------------------------------------
(* petcr/bgcr_model.py: the high-level API.  Its helpers _clamp, _safe_div,  *)
(* _cubic_root_trig, _budyko_tixeront_fu_ratio, bgcr_monthly and the two w   *)
(* schemes are copies of the bgcr_budyko functions modelled above.           *)

\* Erad of calculate_penman_components on one element:
\* Qne = (Rn - G) / latent_heat_vaporization * 86400 / 1000
calculate_penman_EradV(Rn, G, T, gamma, Le) ==
    LET Delta == slope_svpcV(T)
        q == FDiv(FSub(Rn, G), Le)
        Qne == IF IsOrd(q) THEN RoundDiv(86400 * q, 1000) ELSE q
    IN FMul(FDiv(Delta, FAdd(Delta, gamma)), Qne)

\* returns [err, ret] with ret = <<Erad, Eaero>>
calculate_penman_components(Rn, G, T, U2, ea, es, gamma, Le) ==
    LET sE == <<T.shape, Rn.shape, G.shape>>
        sA == <<T.shape, U2.shape, es.shape, ea.shape>>
    IN IF ~BroadcastableAll(sE) \/ ~BroadcastableAll(sA)
       THEN [err |-> "ValueError", ret |-> << >>]
       ELSE LET rE == BroadcastShapes(sE)
                rA == BroadcastShapes(sA)
                Erad == [shape |-> rE,
                         data |-> Strict([k \in 1..Prod(rE) |->
                                     calculate_penman_EradV(At(Rn, k - 1, rE), At(G, k - 1, rE),
                                                            At(T, k - 1, rE), gamma, Le)], Prod(rE))]
                Eaero == [shape |-> rA,
                          data |-> Strict([k \in 1..Prod(rA) |->
                                      penman_EaeroV(At(T, k - 1, rA), At(U2, k - 1, rA),
                                                    At(ea, k - 1, rA), At(es, k - 1, rA), gamma)], Prod(rA))]
            IN [err |-> "none", ret |-> <<Erad, Eaero>>]

\* a missing albedo argument (None): a value that is no ndarray (a 0-d array
\* has one datum)
None == [shape |-> << >>, data |-> << >>]

\* mutant: the dual scheme is used whenever an albedo is given
budyko_w_by_albedo(use_dual_scheme, SI, albedo) ==
    IF albedo # None
    THEN w_from_SI_albedo(SI, albedo)
    ELSE [err |-> "none", ret |-> <<w_from_SI(SI)>>]

\* step 2 of calculate_bgcr_et: returns [err, ret] with ret = <<w>>
budyko_w(use_dual_scheme, SI, albedo) ==
    IF use_dual_scheme
    THEN IF albedo = None
         THEN [err |-> "ValueError", ret |-> << >>]
         ELSE w_from_SI_albedo(SI, albedo)
    ELSE [err |-> "none", ret |-> <<w_from_SI(SI)>>]

\* returns [err, ret] with ret = <<et, epa, erad, eaero, w, beta_c, et_ratio>>
calculate_bgcr_et(Rn, T, U2, ea, es, P, SI, albedo, G, gamma, use_dual_scheme) ==
    LET budyko(Epa, Erad, Eaero, ws) ==
            LET results(m) ==
                    IF m.err # "none" THEN m
                    ELSE [err |-> "none",
                          ret |-> <<m.ret[1], Epa, Erad, Eaero, ws.ret[1], m.ret[2], m.ret[4]>>]
            IN IF ws.err # "none" THEN ws
               ELSE results(bgcr_monthly(P, Epa, Erad, ws.ret[1]))
        penman(c) ==
            IF c.err # "none" THEN c
            ELSE IF ~Broadcastable(c.ret[1].shape, c.ret[2].shape)
            THEN [err |-> "ValueError", ret |-> << >>]
            ELSE budyko(ArrAdd(c.ret[1], c.ret[2]), c.ret[1], c.ret[2],
                        budyko_w(use_dual_scheme, SI, albedo))
    IN penman(calculate_penman_components(Rn, G, T, U2, ea, es, gamma, Le_default))

-----------------------------------------------------------------------------
(* examples/run_synthetic_demo.py: the script from the synthetic series      *)
(* P, Epa, Erad of shape (years, 12, basins) and the albedo per basin to the *)
(* evaporation of the three strategies.                                      *)

\* A[:, :, b] of an array of shape (Y, 12, B), b counted from 0
BasinSlice(A, b) ==
    LET B == A.shape[3]
        n == A.shape[1] * A.shape[2]
    IN [shape |-> <<A.shape[1], A.shape[2]>>,
        data |-> Strict([k \in 1..n |-> A.data[(k - 1) * B + b + 1]], n)]

\* A[None, ...]
AddAxis0(A) == [shape |-> <<1>> \o A.shape, data |-> A.data]

\* lines 66-68: SI[b] = seasonal_index(P[:,:,b][None, ...]) for the basins
\* from b on; an array of more than one element cannot be stored in SI[b].
\* Returns [err, ret] with ret the sequence of the values stored.
RECURSIVE demo_SI(_, _)
demo_SI(P, b) ==
    IF b = P.shape[3] THEN [err |-> "none", ret |-> << >>]
    ELSE LET basin(r) ==
                 LET append(rest) ==
                         IF rest.err # "none" THEN rest
                         ELSE [err |-> "none", ret |-> <<r.ret[1].data[1]>> \o rest.ret]
                 IN IF r.err # "none" THEN r
                    ELSE IF Len(r.ret[1].data) # 1 THEN [err |-> "ValueError", ret |-> << >>]
                    ELSE append(demo_SI(P, b + 1))
         IN basin(seasonal_index(AddAxis0(BasinSlice(P, b))))

\* the uniform w of strategy 1
w_uni == 1600

\* lines 78-89: run_strategy(w_param) for the basins from b on; w_param is a
\* scalar or has one value per basin.  Returns [err, ret] with ret the
\* sequence of the arrays e of the basins.
RECURSIVE run_strategy(_, _, _, _, _)
run_strategy(P, Epa, Erad, w_param, b) ==
    IF b = P.shape[3] THEN [err |-> "none", ret |-> << >>]
    ELSE LET w_use == IF w_param.shape = << >> THEN w_param ELSE Scalar(w_param.data[b + 1])
             basin(r) ==
                 LET append(rest) ==
                         IF rest.err # "none" THEN rest
                         ELSE [err |-> "none", ret |-> <<r.ret[1]>> \o rest.ret]
                 IN IF r.err # "none" THEN [err |-> r.err, ret |-> << >>]
                    ELSE append(run_strategy(P, Epa, Erad, w_param, b + 1))
         IN basin(bgcr_monthly(BasinSlice(P, b), BasinSlice(Epa, b), BasinSlice(Erad, b), w_use))

\* the script up to line 93: returns [err, ret] with
\* ret = <<E_uni, E_si, E_dual>>, each a sequence of arrays, one per basin
run_synthetic_demo(P, Epa, Erad, albedo) ==
    \* w = <<w_uni, w_si, w_dual>>, E = <<E_uni, E_si, E_dual>>
    LET strategies(w) ==
            LET outputs(E) ==
                    IF E[1].err # "none" THEN E[1]
                    ELSE IF E[2].err # "none" THEN E[2]
                    ELSE IF E[3].err # "none" THEN E[3]
                    ELSE [err |-> "none", ret |-> <<E[1].ret, E[2].ret, E[3].ret>>]
            IN outputs([i \in 1..3 |-> run_strategy(P, Epa, Erad, w[i], 0)])
        weights(SI) ==
            LET dual(w_dual) ==
                    IF w_dual.err # "none" THEN w_dual
                    ELSE strategies(<<Scalar(w_uni), w_from_SI(SI), w_dual.ret[1]>>)
            IN dual(w_from_SI_albedo(SI, albedo))
        index(si) ==
            IF si.err # "none" THEN si
            ELSE weights([shape |-> <<P.shape[3]>>, data |-> si.ret])
    IN index(demo_SI(P, 0))

-----------------------------------------------------------------------------
(* petcr/models.py: complementary-relationship models.  The floor 1e-6 of   *)
(* np.maximum(., 1e-6) is below the fixed-point resolution: a floored value  *)
(* is told apart by its sign and the quantities it enters are taken in the   *)
(* limit.                                                                    *)

\* mutant: sigmoid_cr without the cap at ew
sigmoid_crV_uncapped(ep, ew, alpha, beta) ==
    CASE IsNaN(ep) \/ IsNaN(ew) -> NaN
      [] IsOrd(ep) /\ IsOrd(ew) /\ ew > 0 ->
            FDiv(2 * ew, FPow(FAdd(SC, FPow(FDiv(FMax(ep, 0), ew), beta)), FDiv(SC, beta)))
      [] IsOrd(ep) /\ IsOrd(ew) /\ ew <= 0 -> 0

\* sigmoid_cr on one element; alpha is not used by the code
sigmoid_crV(ep, ew, alpha, beta) ==
    CASE IsNaN(ep) \/ IsNaN(ew) -> NaN
      [] IsOrd(ep) /\ IsOrd(ew) /\ ew > 0 ->
            LET ep0 == FMax(ep, 0)
                x == FDiv(ep0, ew)
                ea == FDiv(2 * ew, FPow(FAdd(SC, FPow(x, beta)), FDiv(SC, beta)))
            IN FMin(ea, ew)
      \* ew floored to 1e-6: ea <= ew = 1e-6
      [] IsOrd(ep) /\ IsOrd(ew) /\ ew <= 0 -> 0

\* rescaled_power_cr on one element
rescaled_power_crV(ep, ew, n) ==
    CASE IsNaN(ep) \/ IsNaN(ew) -> NaN
      [] IsOrd(ep) /\ IsOrd(ew) /\ ew > 0 ->
            LET x == IF ep > 0 THEN FDiv(ep, ew) ELSE 0
                x_crit == FPow(2 * SC, FDiv(SC, n))
                term == FSub(2 * SC, FPow(FMin(x, x_crit), n))
                ea == FMulW(ew, FPow(FMax(term, 0), FDiv(SC, n)))
            IN FMin(FMax(ea, 0), ew)
      \* ew floored to 1e-6: ea <= ew = 1e-6
      [] IsOrd(ep) /\ IsOrd(ew) /\ ew <= 0 -> 0

\* bouchet_cr on one element: max(2 ew - ep, 0)
bouchet_crV(ep, ew) == FMax(FSub(FMul(2 * SC, ew), ep), 0)

\* mutant: the non-negativity floor of polynomial_cr is not applied
polynomial_crV_unfloored(ep, ew, b) ==
    CASE IsNaN(ep) \/ IsNaN(ew) -> NaN
      [] IsOrd(ep) /\ IsOrd(ew) /\ ew > 0 ->
            FMulW(ew, FSub(2 * SC, FPow(FDiv(FMax(ep, 0), ew), b)))
      [] IsOrd(ep) /\ IsOrd(ew) /\ ew <= 0 -> 0

\* polynomial_cr on one element
polynomial_crV(ep, ew, b) ==
    CASE IsNaN(ep) \/ IsNaN(ew) -> NaN
      [] IsOrd(ep) /\ IsOrd(ew) /\ ew > 0 ->
            LET ep0 == FMax(ep, 0)
                x == FDiv(ep0, ew)
                ea == FMulW(ew, FSub(2 * SC, FPow(x, b)))
            IN FMax(ea, 0)
      \* ew floored to 1e-6: ea = max(1e-6 (2 - x^b), 0) <= 2e-6
      [] IsOrd(ep) /\ IsOrd(ew) /\ ew <= 0 -> 0

\* mutant: the dry-regime value of aa_cr is not raised to ea_min
aa_crV_unfloored(ep, ew, ea_min) ==
    CASE IsNaN(ep) \/ IsNaN(ew) \/ IsNaN(ea_min) -> NaN
      [] IsOrd(ep) /\ IsOrd(ew) /\ IsOrd(ea_min) /\ ew > 0 ->
            LET ep0 == FMax(ep, 0)
                m == FMax(ea_min, 0)
                ea_dry == FMulW(ew, FAdd(SC, FMul(FSub(SC, FDiv(m, ew)), FSub(SC, FDiv(ep0, ew)))))
                ea == IF ep0 <= ew THEN ew ELSE ea_dry
            IN FMin(ea, ew)
      [] IsOrd(ep) /\ IsOrd(ew) /\ IsOrd(ea_min) /\ ew <= 0 -> 0

\* aa_cr on one element: the wet regime ep <= ew gives ew, the dry regime
\* ew (1 + (1 - ea_min/ew) (1 - ep/ew)); then max with ea_min, min with ew
aa_crV(ep, ew, ea_min) ==
    CASE IsNaN(ep) \/ IsNaN(ew) \/ IsNaN(ea_min) -> NaN
      [] IsOrd(ep) /\ IsOrd(ew) /\ IsOrd(ea_min) /\ ew > 0 ->
            LET ep0 == FMax(ep, 0)
                m == FMax(ea_min, 0)
                ea_dry == FMulW(ew, FAdd(SC, FMul(FSub(SC, FDiv(m, ew)), FSub(SC, FDiv(ep0, ew)))))
                ea == IF ep0 <= ew THEN ew ELSE ea_dry
            IN FMin(FMax(ea, m), ew)
      \* ew floored to 1e-6: ea <= ew = 1e-6
      [] IsOrd(ep) /\ IsOrd(ew) /\ IsOrd(ea_min) /\ ew <= 0 -> 0

\* the models on arrays: return [err, ret] with ret = <<ea>>
polynomial_cr(ep, ew, b) ==
    IF ~Broadcastable(ep.shape, ew.shape) THEN [err |-> "ValueError", ret |-> << >>]
    ELSE LET elementwise(Z) ==
                 [err |-> "none",
                  ret |-> <<[shape |-> Z.shape,
                             data |-> Strict([k \in DOMAIN Z.data |-> polynomial_crV(Z.data[k][1], Z.data[k][2], b)], Len(Z.data))]>>]
         IN elementwise(Zip(ep, ew))

\* ea_min = None stands for the omitted argument: 0.0
aa_cr(ep, ew, ea_min) ==
    LET m == IF ea_min = None THEN Scalar(0) ELSE ea_min
        ss == <<ep.shape, ew.shape, m.shape>>
        elementwise(r) ==
            [err |-> "none",
             ret |-> <<[shape |-> r,
                        data |-> Strict([k \in 1..Prod(r) |->
                                    aa_crV(At(ep, k - 1, r), At(ew, k - 1, r), At(m, k - 1, r))], Prod(r))]>>]
    IN IF ~BroadcastableAll(ss) THEN [err |-> "ValueError", ret |-> << >>]
       ELSE elementwise(BroadcastShapes(ss))

sigmoid_cr(ep, ew, alpha, beta) ==
    IF ~Broadcastable(ep.shape, ew.shape) THEN [err |-> "ValueError", ret |-> << >>]
    ELSE LET elementwise(Z) ==
                 [err |-> "none",
                  ret |-> <<[shape |-> Z.shape,
                             data |-> Strict([k \in DOMAIN Z.data |-> sigmoid_crV(Z.data[k][1], Z.data[k][2], alpha, beta)], Len(Z.data))]>>]
         IN elementwise(Zip(ep, ew))

rescaled_power_cr(ep, ew, n) ==
    IF ~Broadcastable(ep.shape, ew.shape) THEN [err |-> "ValueError", ret |-> << >>]
    ELSE LET elementwise(Z) ==
                 [err |-> "none",
                  ret |-> <<[shape |-> Z.shape,
                             data |-> Strict([k \in DOMAIN Z.data |-> rescaled_power_crV(Z.data[k][1], Z.data[k][2], n)], Len(Z.data))]>>]
         IN elementwise(Zip(ep, ew))

bouchet_cr(ep, ew) ==
    IF ~Broadcastable(ep.shape, ew.shape) THEN [err |-> "ValueError", ret |-> << >>]
    ELSE LET elementwise(Z) ==
                 [err |-> "none",
                  ret |-> <<[shape |-> Z.shape,
                             data |-> Strict([k \in DOMAIN Z.data |-> bouchet_crV(Z.data[k][1], Z.data[k][2])], Len(Z.data))]>>]
         IN elementwise(Zip(ep, ew))

-----------------------------------------------------------------------------
(* petcr/land_atmosphere.py: the wet Bowen ratio.  Temperatures are in K,    *)
(* pressures in Pa at the arguments and in kPa inside, fluxes in W/m2.       *)
(* Coefficients below the fixed-point resolution (0.0016, 0.00006, 1.005e-3) *)
(* are applied as integer ratios so that their digits are kept.              *)

\* temperature - 273.15
temp_celsius(temperature) == temperature - 273150

\* lv = (2500.8 - 2.36 tc + 0.0016 tc^2 - 0.00006 tc^3) / 1000
calculate_latent_heat_vaporization(temperature) ==
    LET lv(tc, tc2) ==
            RoundDiv(2500800 - FMul(2360, tc) + RoundDiv(16 * tc2, 10000)
                     - RoundDiv(6 * FMulW(tc2, tc), 100000), 1000)
    IN lv(temp_celsius(temperature), FMul(temp_celsius(temperature), temp_celsius(temperature)))

\* vp_sat = 0.611 exp(17.27 tc / (tc + 237.3))
calculate_saturation_vapor_pressure_tetens(temperature) ==
    LET vp_sat(tc) == FMul(611, FExp(FDiv(FMul(17270, tc), tc + 237300)))
    IN vp_sat(temp_celsius(temperature))

\* air_pressure / 1000.0
kPa(air_pressure) == FDivW(air_pressure, 1000 * SC)

\* mixing_ratio = q / (1 - q); e = mixing_ratio / (mixing_ratio + 0.622) * p
calculate_actual_vapor_pressure(specific_humidity, air_pressure) ==
    LET vapor_pressure(mixing_ratio) ==
            FMul(FDiv(mixing_ratio, FAdd(mixing_ratio, 622)), kPa(air_pressure))
    IN vapor_pressure(FDiv(specific_humidity, FSub(SC, specific_humidity)))

\* specific heat of air at constant pressure, 1.005e-3 MJ/(kg K), in 1e-6
cp == 1005

\* gamma = cp / (latent_heat * 0.622) * (air_pressure / 1000)
calculate_psychrometric_constant_land(latent_heat, air_pressure) ==
    RoundDiv(cp * kPa(air_pressure), SC * FMul(latent_heat, 622))

\* delta = vp_sat * 4098 / (tc + 237.3)^2
calculate_slope_saturation_curve(temperature) ==
    LET delta(d) == FDivW(4098 * calculate_saturation_vapor_pressure_tetens(temperature),
                          FMulW(d, d))
    IN delta(temp_celsius(temperature) + 237300)

\* beta1 = 0.24 * gamma / delta, the documented lower bound
beta1(air_temperature, air_pressure) ==
    FDiv(FMul(240, calculate_psychrometric_constant_land(
                       calculate_latent_heat_vaporization(air_temperature), air_pressure)),
         calculate_slope_saturation_curve(air_temperature))

\* beta2 = gamma (Ts - Ta) / (vp_sat_surface - vp_actual)
beta2(skin_temperature, air_temperature, specific_humidity, air_pressure) ==
    FDiv(FMul(calculate_psychrometric_constant_land(
                  calculate_latent_heat_vaporization(air_temperature), air_pressure),
              FSub(skin_temperature, air_temperature)),
         FSub(calculate_saturation_vapor_pressure_tetens(skin_temperature),
              calculate_actual_vapor_pressure(specific_humidity, air_pressure)))

\* beta_actual = sensible_heat / latent_heat
beta_actual(sensible_heat, latent_heat) == FDiv(sensible_heat, latent_heat)

\* beta12 = max(beta2, beta1); beta_w = min(beta12, beta_actual)
calculate_wet_bowen_ratio(sensible_heat, latent_heat, skin_temperature, air_temperature, specific_humidity, air_pressure) ==
    FMin(FMax(beta2(skin_temperature, air_temperature, specific_humidity, air_pressure),
              beta1(air_temperature, air_pressure)),
         beta_actual(sensible_heat, latent_heat))

-----------------------------------------------------------------------------
(* Inputs *)

\* most years and most basins of a monthly precipitation record
MaxYears == 2
MaxBasins == 2

\* one year of monthly precipitation: uniform, all in the first half year,
\* all in one month, a dry year
YearPatterns ==
    << [m \in 1..Months |-> SC],
       [m \in 1..Months |-> IF 2 * m <= Months THEN 2 * SC ELSE 0],
       [m \in 1..Months |-> IF m = 1 THEN Months * SC ELSE 0],
       [m \in 1..Months |-> 0] >>

\* a record of shape (Y, 12) + R (R = << >> or <<B>>): year y of basin b
\* follows pattern s0 + y * dy + b * db
Record(Y, R, s0, dy, db) ==
    LET B == Prod(R)
    IN [shape |-> <<Y, Months>> \o R,
        data |-> [k \in 1..(Y * Months * B) |->
            LET y == (k - 1) \div (Months * B)
                m == ((k - 1) \div B) % Months
                b == (k - 1) % B
            IN YearPatterns[((s0 + y * dy + b * db) % Len(YearPatterns)) + 1][m + 1]]]

SeasonalArgs ==
    {<<Record(Y, R, s0, dy, db)>> :
        Y \in 1..MaxYears, R \in {<< >>} \cup {<<B>> : B \in 1..MaxBasins},
        s0 \in 0..(Len(YearPatterns) - 1), dy \in 0..(Len(YearPatterns) - 1), db \in 0..1}
    \cup {<<Fill(S, <<SC, 0, 2 * SC>>, 0)>> :
        S \in {<<Months>>, << >>, <<1, 41, Months>>}
              \cup {<<Y, 6>> : Y \in 1..MaxYears}
              \cup {<<Y, 6, 2>> : Y \in 1..MaxYears}
              \cup {<<Months, Y>> : Y \in 1..MaxYears}}

\* longest axis of an input array of bgcr_monthly
MaxLen == 2

PVals == <<0, 500, 1000, 2000, 5000, -1000>>
EpaVals == <<1000, 2000, 0>>
EradVals == <<1000, 3000, 0>>
WVals == <<2000, 1000, 500, 4000, 250, 0>>
ZVals == {-HUGE, -5000, -1000, -1, 0, 1, 100, 300, 593, 900, 1000, 1185, 1186,
          3000, HUGE, NegInf, PosInf, NaN}

BgcrShapes == {<< >>} \cup {<<n>> : n \in 1..MaxLen} \cup {<<m, n>> : m, n \in 1..MaxLen}

\* shapes for w: a scalar, the shape of P, a single element, one value per
\* column, and a vector longer than any axis of P
WShapes(S) ==
    {<< >>, S, <<1>>, <<MaxLen + 1>>} \cup (IF S = << >> THEN {} ELSE {<<S[Len(S)]>>})

\* seasonality indices: the ends of [0, 1], the minimum of the BGCR-1
\* parabola (near 0.044), inner points, and values outside [0, 1]
SIVals == <<0, 44, 250, 500, 1000, 1500, -500>>

\* albedos: inside [0.1, 0.5], at and beyond the clip bounds 1e-3 and 1.0
ALBVals == <<100, 250, 500, 1, 0, -500, 2000, 1000, 30>>

WSchemeShapes == {<< >>} \cup {<<n>> : n \in 1..MaxLen}

WSchemeArgs ==
    {<<Fill(S, SIVals, s0), Fill(Sa, ALBVals, a0)>> :
        S \in WSchemeShapes, Sa \in WSchemeShapes,
        s0 \in 0..(Len(SIVals) - 1), a0 \in 0..(Len(ALBVals) - 1)}

\* Penman inputs: net radiation, ground heat flux and latent heat in MJ,
\* temperature in degrees C, wind speed in m/s, vapour pressures in kPa
RnVals == <<2450, 4900, 0, 1225>>
GVals == <<0, 1225>>
TVals == <<20000, 0, 30000, -10000>>
U2Vals == <<2000, 0>>
eaVals == <<1500>>
esVals == <<2300, 1500>>
LeVals == <<2450, 4900, 1225>>

PenmanShapes == {<< >>, <<MaxLen>>, <<MaxLen + 1>>}

\* <<Rn, G, T, U2, ea, es>>: every combination of scalar values, and arrays
\* for Rn, T and U2
PenmanArgs ==
    {<<Scalar(RnVals[r]), Scalar(GVals[g]), Scalar(TVals[t]), Scalar(U2Vals[u]),
       Scalar(eaVals[a]), Scalar(esVals[e])>> :
        r \in DOMAIN RnVals, g \in DOMAIN GVals, t \in DOMAIN TVals, u \in DOMAIN U2Vals,
        a \in DOMAIN eaVals, e \in DOMAIN esVals}
    \cup {<<Fill(SR, RnVals, r0), Scalar(GVals[1]), Fill(ST, TVals, t0), Fill(SU, U2Vals, 0),
            Scalar(eaVals[1]), Scalar(esVals[1])>> :
        SR \in PenmanShapes, ST \in PenmanShapes, SU \in PenmanShapes,
        r0 \in 0..(Len(RnVals) - 1), t0 \in 0..(Len(TVals) - 1)}

\* calculate_bgcr_et inputs: <<Rn, T, U2, ea, es, P, SI, albedo, G, gamma,
\* use_dual_scheme>>, with a scalar or a vector of precipitation and the
\* albedo given or missing
BgcrEtRn == {245, 49}
BgcrEtP == <<0, 5000, 10000>>
BgcrEtSI == {0, 500, 1000}
BgcrEtAlbedo == {None, Scalar(200), Scalar(500), Fill(<<MaxLen + 1>>, <<200, 500>>, 0)}

BgcrEtArgs ==
    {<<Scalar(rn), Scalar(TVals[1]), Scalar(U2Vals[1]), Scalar(eaVals[1]), Scalar(esVals[1]),
       Fill(S, BgcrEtP, p0), Scalar(si), alb, Scalar(0), gamma_default, dual>> :
        rn \in BgcrEtRn, S \in {<< >>, <<MaxLen>>}, p0 \in 0..(Len(BgcrEtP) - 1),
        si \in BgcrEtSI, alb \in BgcrEtAlbedo, dual \in BOOLEAN}

\* the synthetic series of the demo: precipitation of shape
\* (years, 12, basins), clipped from below at 0.1 (line 58), Erad and
\* Epa = Erad + an aerodynamic term, and one albedo per basin
DemoArgs ==
    {<<clamp(Record(Y, <<B>>, s0, dy, db), 100, PosInf),
       Fill(<<Y, Months, B>>, <<4000, 5000, 6000>>, e0),
       Fill(<<Y, Months, B>>, <<3000, 4000, 5000>>, e0),
       Fill(<<B>>, <<150, 300, 500>>, a0)>> :
        Y \in 1..MaxYears, B \in 1..MaxBasins,
        s0 \in 0..(Len(YearPatterns) - 1), dy \in 0..1, db \in 0..1,
        e0 \in 0..2, a0 \in 0..2}

\* potential and wet-environment evaporation (W/m2), the shape parameters
\* beta of sigmoid_cr and n of rescaled_power_cr, and the default alpha
EpVals == <<350000, 100000, 500000, 0, 700000, -50000, 400000>>
EwVals == <<350000, 100000, 500000, 0>>
ShapeParams == {500, 1000, 2000}
alpha_default == 1260

\* <<ep, ew>>: every pair of scalars, and a vector of ep against a scalar
\* or a vector of ew
CrArgs ==
    {<<Scalar(EpVals[i]), Scalar(EwVals[j])>> : i \in DOMAIN EpVals, j \in DOMAIN EwVals}
    \cup {<<Fill(<<MaxLen>>, EpVals, i0), Fill(S, EwVals, j0)>> :
            S \in {<< >>, <<MaxLen>>, <<MaxLen + 1>>},
            i0 \in 0..(Len(EpVals) - 1), j0 \in 0..(Len(EwVals) - 1)}

\* the minimum evaporation of aa_cr: omitted, a scalar, or one value per
\* element (of a length that broadcasts or not)
EaMinVals == <<0, 50000, 500000, -20000>>
EaMinArgs ==
    {None} \cup {Scalar(EaMinVals[i]) : i \in DOMAIN EaMinVals}
    \cup {Fill(<<MaxLen>>, EaMinVals, 0), Fill(<<MaxLen + 1>>, EaMinVals, 0)}

-----------------------------------------------------------------------------
(* The calls *)

\* Init draws the call and its arguments; the call's action runs it.
\* Scalar calls take every combination of the values; array calls start the
\* cyclic fill of P and w at every second value.  A precipitation near the
\* largest double is drawn over Epa = 0 only, and a negative w in scalar
\* calls only.
WNegative == -SC

BgcrArgs ==
    {<<Fill(S, PVals, p0), Fill(S, EpaVals, e0), Fill(S, EradVals, r0), Fill(Sw, WVals, w0)>> :
        S \in {<< >>}, Sw \in {<< >>}, p0 \in 0..(Len(PVals) - 1), e0 \in 0..(Len(EpaVals) - 1),
        r0 \in 0..(Len(EradVals) - 1), w0 \in 0..(Len(WVals) - 1)}
    \cup UNION {
      {<<Fill(S, PVals, 2 * p0), Fill(S, EpaVals, e0), Fill(S, EradVals, e0), Fill(Sw, WVals, 2 * w0)>> :
        Sw \in WShapes(S), p0 \in 0..((Len(PVals) - 1) \div 2), e0 \in 0..(Len(EpaVals) - 1),
        w0 \in 0..((Len(WVals) - 1) \div 2)} : S \in BgcrShapes}
    \cup {<<Scalar(PVals[p0]), Scalar(EpaVals[e0]), Scalar(EradVals[1]), Scalar(WNegative)>> :
            p0 \in DOMAIN PVals, e0 \in DOMAIN EpaVals}
    \cup {<<Scalar(FltMax), Scalar(0), Scalar(EradVals[r0]), Scalar(WVals[w0])>> :
        r0 \in 1..Len(EradVals), w0 \in 1..Len(WVals)}

\* fluxes (W/m2), temperatures (K), specific humidities and pressures (Pa)
\* of the wet Bowen ratio
SensibleHeatVals == {50000, 5000, 200000, -10000}
LatentHeatVals == {100000, 50000}
SkinTemperatureVals == {300150, 303150, 298150, 296150}
AirTemperatureVals == {298150, 288150}
SpecificHumidityVals == {10, 5}
AirPressureVals == {90000000, 70000000}
WetBowenArgs ==
    SensibleHeatVals \X LatentHeatVals \X SkinTemperatureVals \X AirTemperatureVals
        \X SpecificHumidityVals \X AirPressureVals

\* negative precipitation over Epa = 0 is left out (see residualV)
BgcrArgOK(a) == \A k \in 1..Len(a[1].data) : a[1].data[k] < 0 => a[2].data[k] # 0

Init ==
    /\ pc = "call"
    /\ result = << >>
    /\ err = "none"
    /\ \/ /\ op = "bgcr_monthly"
          /\ args \in {a \in BgcrArgs : BgcrArgOK(a)}
       \/ /\ op = "cubic_root_trig"
          /\ args \in {<<Scalar(z)>> : z \in ZVals}
       \/ /\ op = "seasonal_index"
          /\ args \in SeasonalArgs
       \/ /\ op = "penman_components"
          /\ args \in {a \o <<gamma_default, LeVals[l]>> : a \in PenmanArgs, l \in DOMAIN LeVals}
       \/ /\ op = "epa_from_penman"
          /\ args \in PenmanArgs
       \/ /\ op = "calculate_bgcr_et"
          /\ args \in BgcrEtArgs
       \/ /\ op = "run_synthetic_demo"
          /\ args \in DemoArgs
       \/ /\ op = "sigmoid_cr"
          /\ args \in {a \o <<alpha_default, b>> : a \in CrArgs, b \in ShapeParams}
       \/ /\ op = "rescaled_power_cr"
          /\ args \in {a \o <<n>> : a \in CrArgs, n \in ShapeParams}
       \/ /\ op = "bouchet_cr"
          /\ args \in CrArgs
       \/ /\ op = "polynomial_cr"
          /\ args \in {a \o <<b>> : a \in CrArgs, b \in ShapeParams}
       \/ /\ op = "calculate_wet_bowen_ratio"
          /\ args \in WetBowenArgs
       \/ /\ op = "aa_cr"
          /\ args \in {a \o <<m>> : a \in CrArgs, m \in EaMinArgs}
       \/ /\ op = "w_from_SI"
          /\ args \in {<<a[1]>> : a \in WSchemeArgs}
       \/ /\ op = "w_from_SI_albedo"
          /\ args \in WSchemeArgs

\* The operations of bgcr_budyko that the demo and the tests call more than
\* once on the same arrays.
CoreOps ==
    {"bgcr_monthly", "cubic_root_trig", "seasonal_index", "w_from_SI", "w_from_SI_albedo",
     "penman_components"}

\* position after a call returned: "done" after the first call, "redone"
\* after the same call was made again
After(p) == IF p = "call" THEN "done" ELSE "redone"

\* mutant: clamp writes into the array it was given
InputsAfter_in_place(o, a) ==
    IF o = "bgcr_monthly" THEN [a EXCEPT ![1] = clamp(a[1], 0, SC)] ELSE a

\* The caller's arrays after operation o ran on them: every statement of
\* the operations builds a new array (x = np.maximum(x, lo) rebinds the
\* local name), none assigns to an element or passes out=.
InputsAfter(o, a) == a

Call_bgcr_monthly ==
    /\ pc \in {"call", "recall"}
    /\ op = "bgcr_monthly"
    /\ \E r \in {bgcr_monthly(args[1], args[2], args[3], args[4])} :
          /\ result' = r.ret
          /\ err' = r.err
    /\ pc' = After(pc)
    /\ args' = InputsAfter(op, args)
    /\ UNCHANGED op

Call_cubic_root_trig ==
    /\ pc \in {"call", "recall"}
    /\ op = "cubic_root_trig"
    /\ result' = <<cubic_root_trig(args[1])>>
    /\ err' = "none"
    /\ pc' = After(pc)
    /\ args' = InputsAfter(op, args)
    /\ UNCHANGED op

Call_seasonal_index ==
    /\ pc \in {"call", "recall"}
    /\ op = "seasonal_index"
    /\ \E r \in {seasonal_index(args[1])} :
          /\ result' = r.ret
          /\ err' = r.err
    /\ pc' = After(pc)
    /\ args' = InputsAfter(op, args)
    /\ UNCHANGED op

Call_w_from_SI ==
    /\ pc \in {"call", "recall"}
    /\ op = "w_from_SI"
    /\ result' = <<w_from_SI(args[1])>>
    /\ err' = "none"
    /\ pc' = After(pc)
    /\ args' = InputsAfter(op, args)
    /\ UNCHANGED op

Call_w_from_SI_albedo ==
    /\ pc \in {"call", "recall"}
    /\ op = "w_from_SI_albedo"
    /\ \E r \in {w_from_SI_albedo(args[1], args[2])} :
          /\ result' = r.ret
          /\ err' = r.err
    /\ pc' = After(pc)
    /\ args' = InputsAfter(op, args)
    /\ UNCHANGED op

Call_penman_components ==
    /\ pc \in {"call", "recall"}
    /\ op = "penman_components"
    /\ \E r \in {penman_components(args[1], args[2], args[3], args[4], args[5], args[6],
                             args[7], args[8])} :
          /\ result' = r.ret
          /\ err' = r.err
    /\ pc' = After(pc)
    /\ args' = InputsAfter(op, args)
    /\ UNCHANGED op

Call_epa_from_penman ==
    /\ pc = "call"
    /\ op = "epa_from_penman"
    /\ \E r \in {epa_from_penman(args[1], args[2], args[3], args[4], args[5], args[6])} :
          /\ result' = r.ret
          /\ err' = r.err
    /\ pc' = "done"
    /\ UNCHANGED <<op, args>>

Call_calculate_bgcr_et ==
    /\ pc = "call"
    /\ op = "calculate_bgcr_et"
    /\ \E r \in {calculate_bgcr_et(args[1], args[2], args[3], args[4], args[5], args[6],
                             args[7], args[8], args[9], args[10], args[11])} :
          /\ result' = r.ret
          /\ err' = r.err
    /\ pc' = "done"
    /\ UNCHANGED <<op, args>>

Run_synthetic_demo ==
    /\ pc = "call"
    /\ op = "run_synthetic_demo"
    /\ \E r \in {run_synthetic_demo(args[1], args[2], args[3], args[4])} :
          /\ result' = r.ret
          /\ err' = r.err
    /\ pc' = "done"
    /\ UNCHANGED <<op, args>>

Call_sigmoid_cr ==
    /\ pc = "call"
    /\ op = "sigmoid_cr"
    /\ \E r \in {sigmoid_cr(args[1], args[2], args[3], args[4])} :
          /\ result' = r.ret
          /\ err' = r.err
    /\ pc' = "done"
    /\ UNCHANGED <<op, args>>

Call_rescaled_power_cr ==
    /\ pc = "call"
    /\ op = "rescaled_power_cr"
    /\ \E r \in {rescaled_power_cr(args[1], args[2], args[3])} :
          /\ result' = r.ret
          /\ err' = r.err
    /\ pc' = "done"
    /\ UNCHANGED <<op, args>>

Call_bouchet_cr ==
    /\ pc = "call"
    /\ op = "bouchet_cr"
    /\ \E r \in {bouchet_cr(args[1], args[2])} :
          /\ result' = r.ret
          /\ err' = r.err
    /\ pc' = "done"
    /\ UNCHANGED <<op, args>>

Call_polynomial_cr ==
    /\ pc = "call"
    /\ op = "polynomial_cr"
    /\ \E r \in {polynomial_cr(args[1], args[2], args[3])} :
          /\ result' = r.ret
          /\ err' = r.err
    /\ pc' = "done"
    /\ UNCHANGED <<op, args>>

Call_aa_cr ==
    /\ pc = "call"
    /\ op = "aa_cr"
    /\ \E r \in {aa_cr(args[1], args[2], args[3])} :
          /\ result' = r.ret
          /\ err' = r.err
    /\ pc' = "done"
    /\ UNCHANGED <<op, args>>

Call_calculate_wet_bowen_ratio ==
    /\ pc = "call"
    /\ op = "calculate_wet_bowen_ratio"
    /\ result' = <<calculate_wet_bowen_ratio(args[1], args[2], args[3], args[4], args[5], args[6])>>
    /\ err' = "none"
    /\ pc' = "done"
    /\ UNCHANGED <<op, args>>

\* The caller calls the same operation again with the arrays it passed
\* before; the earlier result stays in the caller's hands.
Call_again ==
    /\ pc = "done"
    /\ op \in CoreOps
    /\ pc' = "recall"
    /\ UNCHANGED <<op, args, result, err>>

Next ==
    \/ Call_bgcr_monthly
    \/ Call_cubic_root_trig
    \/ Call_seasonal_index
    \/ Call_w_from_SI
    \/ Call_w_from_SI_albedo
    \/ Call_penman_components
    \/ Call_epa_from_penman
    \/ Call_calculate_bgcr_et
    \/ Run_synthetic_demo
    \/ Call_sigmoid_cr
    \/ Call_rescaled_power_cr
    \/ Call_bouchet_cr
    \/ Call_polynomial_cr
    \/ Call_aa_cr
    \/ Call_calculate_wet_bowen_ratio
    \/ Call_again

Spec == Init /\ [][Next]_vars

-----------------------------------------------------------------------------
(* Reading a finished call *)

Returned(o) == pc = "done" /\ op = o /\ err = "none"
Finished(o) == pc = "done" /\ op = o

\* the 0-based flat indices of the returned array E, and the element of an
\* argument or result array that belongs to index k
Cells == 0..(Prod(result[1].shape) - 1)
Elem(A, k) == At(A, k, result[1].shape)

P_(k) == Elem(args[1], k)
Epa_(k) == Elem(args[2], k)
Erad_(k) == Elem(args[3], k)
w_(k) == Elem(args[4], k)
E_(k) == Elem(result[1], k)
beta_c_(k) == Elem(result[2], k)
x_(k) == Elem(result[3], k)
ratio_(k) == Elem(result[4], k)

\* t broadcasts to S without changing S
BroadcastsTo(t, S) ==
    /\ Len(t) <= Len(S)
    /\ \A i \in 1..Len(t) : t[i] = 1 \/ t[i] = S[Len(S) - Len(t) + i]

-----------------------------------------------------------------------------
(* Claims *)

\* C1: for P >= 0, Epa >= 0, Erad >= 0 and w > 0 the evaporation returned by
\* bgcr_monthly satisfies 0 <= E <= Epa in every element.
C1_EvaporationBounds ==
    Returned("bgcr_monthly") =>
        \A k \in Cells :
            (/\ IsReal(P_(k)) /\ P_(k) >= 0
             /\ IsOrd(Epa_(k)) /\ Epa_(k) >= 0
             /\ IsOrd(Erad_(k)) /\ Erad_(k) >= 0
             /\ IsOrd(w_(k)) /\ w_(k) > 0)
            => (0 <= E_(k) /\ E_(k) <= Epa_(k))

\* a valid element whose evaporation lies strictly between 0 and Epa, next to
\* one whose unclamped Budyko residual is negative (w < 1, P > 0)
C1_Witness ==
    /\ Returned("bgcr_monthly")
    /\ \E k \in Cells : P_(k) > 0 /\ Erad_(k) > 0 /\ w_(k) > SC
                          /\ 0 < E_(k) /\ E_(k) < Epa_(k)
    /\ \E k \in Cells : P_(k) > 0 /\ Epa_(k) > 0 /\ w_(k) > 0 /\ w_(k) < SC /\ E_(k) = 0

\* C2: the diagnostic ratio lies in [0, 1] whenever the formulas produce a
\* number (not NaN), whatever the input.
C2_RatioBound ==
    Returned("bgcr_monthly") =>
        \A k \in Cells : ~IsNaN(ratio_(k)) => (0 <= ratio_(k) /\ ratio_(k) <= SC)

\* one element is NaN (negative precipitation under a fractional w), another
\* is a number strictly inside (0, 1)
C2_Witness ==
    /\ Returned("bgcr_monthly")
    /\ \E k \in Cells : P_(k) < 0 /\ IsNaN(ratio_(k))
    /\ \E k \in Cells : 0 < ratio_(k) /\ ratio_(k) < SC

\* C3: for valid inputs (P >= 0, Epa > 0, w > 0) the returned x is a root
\* of x^3 - 2x^2 + z = 0 with z the Budyko residual.  The tolerance 1e-6 is
\* below the fixed-point resolution; 5 units (0.005) are allowed instead.
C3_CubicIsRoot ==
    Returned("bgcr_monthly") =>
        \A k \in Cells :
            (/\ IsOrd(P_(k)) /\ P_(k) >= 0
             /\ IsOrd(Epa_(k)) /\ Epa_(k) > 0
             /\ IsOrd(w_(k)) /\ w_(k) > 0)
            => LET z == residualV(safe_divV(P_(k), Epa_(k)), w_(k))
                   x == x_(k)
                   xx == FMul(x, x)
               IN Abs(FMul(xx, x) - 2 * xx + z) <= 5

\* C4: cubic_root_trig(z) lies in [0, 2] for every real z.
C4_RootRange ==
    (Returned("cubic_root_trig") /\ IsReal(args[1].data[1])) =>
        (0 <= result[1].data[1] /\ result[1].data[1] <= 2 * SC)

\* z beyond 32/27, where the arcsine argument had to be clipped
C4_Witness ==
    /\ Returned("cubic_root_trig")
    /\ IsReal(args[1].data[1])
    /\ args[1].data[1] > (32 * SC) \div 27 + 1
    /\ result[1].data[1] > SC

\* C5: with P = 0 and positive Epa, Erad, w, bgcr_monthly returns E = 0 and
\* ratio = 0.
C5_ZeroPrecipitation ==
    Returned("bgcr_monthly") =>
        \A k \in Cells :
            (/\ P_(k) = 0
             /\ IsOrd(Epa_(k)) /\ Epa_(k) > 0
             /\ IsOrd(Erad_(k)) /\ Erad_(k) > 0
             /\ IsOrd(w_(k)) /\ w_(k) > 0)
            => (E_(k) = 0 /\ ratio_(k) = 0)

C5_Witness ==
    /\ Returned("bgcr_monthly")
    /\ \E k \in Cells : P_(k) = 0 /\ Epa_(k) > 0 /\ Erad_(k) > 0 /\ w_(k) > SC
                          /\ E_(k) = 0 /\ ratio_(k) = 0
    /\ \E k \in Cells : P_(k) > 0 /\ E_(k) > 0

\* C6: with zero precipitation the cubic root in the diagnostics is x = 0
\* and beta_c = 0; cubic_root_trig(0) = 0.
C6_ZeroRoot ==
    /\ (Returned("cubic_root_trig") /\ args[1].data[1] = 0) => result[1].data[1] = 0
    /\ Returned("bgcr_monthly") =>
          \A k \in Cells :
              (/\ P_(k) = 0
               /\ IsOrd(Epa_(k)) /\ Epa_(k) > 0
               /\ IsOrd(Erad_(k)) /\ Erad_(k) > 0
               /\ IsOrd(w_(k)) /\ w_(k) > 0)
              => (x_(k) = 0 /\ beta_c_(k) = 0)

\* C7: with P, Epa, Erad of one shape S and w broadcastable to S, E and the
\* diagnostics beta_c, x and ratio all have shape S.
C7_Shapes ==
    (/\ Finished("bgcr_monthly")
     /\ args[2].shape = args[1].shape
     /\ args[3].shape = args[1].shape
     /\ BroadcastsTo(args[4].shape, args[1].shape))
    => (/\ err = "none"
        /\ \A i \in 1..4 : result[i].shape = args[1].shape)

\* a two-dimensional S with w a vector along the last axis
C7_Witness ==
    /\ Returned("bgcr_monthly")
    /\ Len(args[1].shape) = 2
    /\ args[1].shape[1] > 1
    /\ Len(args[4].shape) = 1
    /\ args[4].shape[1] > 1
    /\ result[1].shape = args[1].shape

\* C8: bgcr_monthly with w = 0 (scalar or any element) raises instead of
\* returning a result.
C8_ZeroWRaises ==
    (Finished("bgcr_monthly") /\ \E i \in 1..Len(args[4].data) : args[4].data[i] = 0)
    => (err # "none" /\ result = << >>)

\* C9: seasonal_index raises, and returns nothing, whenever the second axis
\* of its input is not of length 12.
C9_MonthAxis ==
    (Finished("seasonal_index")
     /\ (Len(args[1].shape) < 2 \/ args[1].shape[2] # Months))
    => (err # "none" /\ result = << >>)

\* the month axis in third place, as in shape (1, 41, 12)
C9_Witness ==
    /\ Finished("seasonal_index")
    /\ Len(args[1].shape) = 3
    /\ args[1].shape[2] # Months
    /\ args[1].shape[3] = Months
    /\ err = "ValueError"
    /\ result = << >>

\* C10: for an input (Y, 12, ...) with positive annual totals every returned
\* value is the mean over the Y years of sum_m |P_m - P_annual/12| / P_annual
\* (up to one unit of rounding).
C10_MeanOverYears ==
    LET A == args[1]
        Y == A.shape[1]
        B == Prod(SubSeq(A.shape, 3, Len(A.shape)))
        Pm(y, m, b) == A.data[(y * Months + m) * B + b + 1]
        RECURSIVE Total(_, _, _)
        Total(y, m, b) == IF m = 0 THEN 0 ELSE Total(y, m - 1, b) + Pm(y, m - 1, b)
        RECURSIVE Dev(_, _, _)
        Dev(y, m, b) == IF m = 0 THEN 0
                        ELSE Dev(y, m - 1, b)
                             + Abs(Pm(y, m - 1, b) - RoundDiv(Total(y, Months, b), Months))
        SIyear(y, b) == RoundDiv(Dev(y, Months, b) * SC, Total(y, Months, b))
        RECURSIVE SumSI(_, _)
        SumSI(y, b) == IF y = 0 THEN 0 ELSE SumSI(y - 1, b) + SIyear(y - 1, b)
    IN (/\ Returned("seasonal_index")
        /\ \A y \in 0..(Y - 1), b \in 0..(B - 1) : Total(y, Months, b) > 0)
       => \A k \in 1..Len(result[1].data) :
              Abs(result[1].data[k] - RoundDiv(SumSI(Y, (k - 1) % B), Y)) <= 1

\* C11: seasonal_index maps an input of shape (Y, 12) + S to an output of
\* shape S: the year axis and the month axis are both removed, so a (Y, 12)
\* input gives a 0-dimensional value.
C11_OutputShape ==
    Returned("seasonal_index") =>
        result[1].shape = SubSeq(args[1].shape, 3, Len(args[1].shape))

\* the years of one basin, as the sequence of their annual totals
AnnualTotals(A, b) ==
    LET B == Prod(SubSeq(A.shape, 3, Len(A.shape)))
        RECURSIVE Total(_, _)
        Total(y, m) == IF m = 0 THEN 0
                       ELSE Total(y, m - 1) + A.data[(y * Months + m - 1) * B + b + 1]
    IN [y \in 1..A.shape[1] |-> Total(y - 1, Months)]

\* C12: for non-negative precipitation where some years have a zero annual
\* total and others a positive one, every value seasonal_index returns is a
\* finite number in [0, 3].
C12_DryYears ==
    (/\ Returned("seasonal_index")
     /\ \A k \in DOMAIN args[1].data : args[1].data[k] >= 0
     /\ \E b \in 0..(Prod(SubSeq(args[1].shape, 3, Len(args[1].shape))) - 1) :
            LET T == AnnualTotals(args[1], b)
            IN (\E y \in DOMAIN T : T[y] = 0) /\ (\E y \in DOMAIN T : T[y] > 0))
    => \A k \in DOMAIN result[1].data :
           IsOrd(result[1].data[k]) /\ 0 <= result[1].data[k] /\ result[1].data[k] <= 3 * SC


\* C13: with Epa = 0, finite P >= 0, Erad > 0 and w > 0, bgcr_monthly
\* raises nothing and returns E = 0 (finite, 0 <= E <= Epa) and a finite
\* beta_c.
C13_ZeroEpa ==
    /\ (/\ Finished("bgcr_monthly")
        /\ \A i \in 1..4 : args[i].shape = << >>
        /\ args[2].data[1] = 0)
       => err = "none"
    /\ Returned("bgcr_monthly") =>
          \A k \in Cells :
              (/\ Epa_(k) = 0
               /\ IsReal(P_(k)) /\ P_(k) >= 0
               /\ IsOrd(Erad_(k)) /\ Erad_(k) > 0
               /\ IsOrd(w_(k)) /\ w_(k) > 0)
              => (E_(k) = 0 /\ IsReal(beta_c_(k)))

\* an element of SI in [0, 1], of ALB in [0.1, 0.5]
SIInRange(v) == 0 <= v /\ v <= SC
ALBInRange(v) == SC \div 10 <= v /\ v <= SC \div 2

C15_AlbedoClipped ==
    Returned("w_from_SI_albedo") =>
        /\ result = w_from_SI_albedo(args[1], clamp(args[2], 1, SC)).ret
        /\ \A k \in Cells :
              /\ IsOrd(result[1].data[k + 1])
              /\ result[1].data[k + 1]
                    - FAdd(593, FMul(7087, FPow(Elem(args[1], k), 3 * SC))) <= 175 * 10^5

\* an albedo of 0 or below, which takes the value of albedo 1e-3, next to an
\* albedo above 1, which takes the value of albedo 1.0
C15_Witness ==
    /\ Returned("w_from_SI_albedo")
    /\ \E k \in Cells :
          /\ Elem(args[2], k) <= 0
          /\ result[1].data[k + 1] = w_from_SI_albedoV(Elem(args[1], k), 1)
    /\ \E k \in Cells :
          /\ Elem(args[2], k) > SC
          /\ result[1].data[k + 1] = w_from_SI_albedoV(Elem(args[1], k), SC)

\* C16: penman_components takes the available energy from its Le argument,
\* Qne = (Rn - G) / Le: the returned Erad is Delta/(Delta+gamma) * (Rn - G)/Le,
\* and a call with Le doubled returns half the Erad (to one unit of rounding)
\* and the same Eaero.
C16_LeUsed ==
    Returned("penman_components") =>
        LET Rn == args[1]
            G == args[2]
            T == args[3]
            gamma == args[7]
            Le == args[8]
            Erad == result[1]
            twice == penman_components(Rn, G, T, args[4], args[5], args[6], gamma, 2 * Le).ret
        IN /\ \A k \in 0..(Prod(Erad.shape) - 1) :
                LET Delta == slope_svpcV(At(T, k, Erad.shape))
                IN Erad.data[k + 1]
                     = FMul(FDiv(Delta, FAdd(Delta, gamma)),
                            FDiv(FSub(At(Rn, k, Erad.shape), At(G, k, Erad.shape)), Le))
           /\ \A k \in DOMAIN Erad.data : Abs(2 * twice[1].data[k] - Erad.data[k]) <= 1
           /\ twice[2] = result[2]

\* A = B + C elementwise, B and C broadcast to the shape of A
IsSum(A, B, C) ==
    /\ A.shape = BroadcastShape(B.shape, C.shape)
    /\ \A k \in 0..(Prod(A.shape) - 1) :
          A.data[k + 1] = FAdd(At(B, k, A.shape), At(C, k, A.shape))

\* C17: epa_from_penman returns (Epa, Erad, Eaero) with Erad and Eaero the
\* outputs of penman_components on the same inputs and Epa = Erad + Eaero
\* exactly; calculate_bgcr_et returns 'epa' equal to 'erad' + 'eaero'.
C17_Additivity ==
    /\ Returned("epa_from_penman") =>
          /\ <<result[2], result[3]>>
                = penman_components(args[1], args[2], args[3], args[4], args[5], args[6],
                                    gamma_default, Le_default).ret
          /\ IsSum(result[1], result[2], result[3])
    /\ Returned("calculate_bgcr_et") => IsSum(result[2], result[3], result[4])

\* a vector of radiation terms, all different from 0, added to a scalar
\* aerodynamic term different from 0
C17_Witness ==
    /\ Returned("epa_from_penman")
    /\ Len(result[2].data) > 1
    /\ result[3].shape = << >>
    /\ result[3].data[1] # 0
    /\ \A k \in DOMAIN result[2].data : result[2].data[k] # 0
    /\ result[2].data[1] # result[2].data[2]

\* the call of this state with another albedo argument
SameCallWithAlbedo(alb) ==
    calculate_bgcr_et(args[1], args[2], args[3], args[4], args[5], args[6], args[7],
                      alb, args[9], args[10], args[11])

\* C19: calculate_bgcr_et raises ValueError when use_dual_scheme is True and
\* albedo is None; with use_dual_scheme False it does not raise for a missing
\* albedo, takes w from the single-variable scheme w_from_SI(SI), and returns
\* the same result whatever the albedo argument.
C19_AlbedoRequirement ==
    Finished("calculate_bgcr_et") =>
        /\ (args[11] /\ args[8] = None) => (err = "ValueError" /\ result = << >>)
        /\ ~args[11] =>
              /\ err = "none"
              /\ result[5] = w_from_SI(args[7])
              /\ \A alb \in BgcrEtAlbedo :
                    SameCallWithAlbedo(alb) = [err |-> err, ret |-> result]

\* the single scheme with an albedo given, whose dual-scheme w would differ
C19_Witness ==
    /\ Returned("calculate_bgcr_et")
    /\ ~args[11]
    /\ args[8] # None
    /\ Broadcastable(args[7].shape, args[8].shape)
    /\ w_from_SI_albedo(args[7], args[8]).ret[1] # result[5]
    /\ Len(result[1].data) > 1
    /\ result[1].data[2] > 0

\* C18: the synthetic demo (P of shape (years, 12, basins), seasonal_index
\* once per basin, w by both schemes, bgcr_monthly per basin for the three
\* strategies) runs to completion without raising: it exits with code 0.
C18_DemoCompletes ==
    Finished("run_synthetic_demo") => (err = "none" /\ Len(result) = 3)

\* every element with Ep = Ew > 0 has Ea within 1.0 of Ew
AtReferenceEaIsEw ==
    \A k \in Cells :
        (Elem(args[1], k) = Elem(args[2], k) /\ Elem(args[2], k) > 0)
        => Abs(result[1].data[k + 1] - Elem(args[2], k)) < SC

\* C20: at the reference condition Ep = Ew > 0, sigmoid_cr(Ep, Ew, beta)
\* returns Ea equal to Ew (within 1.0; in particular for Ew = 350 and
\* beta = 0.5), and so do rescaled_power_cr and bouchet_cr.
C20_ReferenceCondition ==
    /\ Returned("sigmoid_cr") => AtReferenceEaIsEw
    /\ Returned("rescaled_power_cr") => AtReferenceEaIsEw
    /\ Returned("bouchet_cr") => AtReferenceEaIsEw

\* the element of Ep and of Ew that belongs to index k of the result
Ep_(k) == Elem(args[1], k)
Ew_(k) == Elem(args[2], k)
Ea_(k) == result[1].data[k + 1]

\* every element with Ep >= 0 and Ew > 0 has Ea >= 0
EaNonNegative == \A k \in Cells : (Ep_(k) >= 0 /\ Ew_(k) > 0) => Ea_(k) >= 0

\* every element with Ep >= 0 and Ew > 0 has Ea <= Ew
EaAtMostEw == \A k \in Cells : (Ep_(k) >= 0 /\ Ew_(k) > 0) => Ea_(k) <= Ew_(k)

RoundingSlack(ew) == ew \div (2 * SC) + 1

C29_BothBounds ==
    (Returned("aa_cr") /\ args[3] # None) =>
        \A k \in Cells :
            (Ep_(k) >= 0 /\ Ew_(k) > 0 /\ Elem(args[3], k) >= 0) =>
                (Elem(args[3], k) <= Ea_(k) /\ Ea_(k) <= Ew_(k))

\* the residual 1 + Phi - (1 + Phi^w)^(1/w) of the element with index k
z_(k) == residualV(safe_divV(P_(k), Epa_(k)), w_(k))

\* C24: in bgcr_monthly the cubic solver is fed the unclamped residual z,
\* and the returned ratio is the same residual clamped to [0, 1]: for every
\* input ratio = min(max(z, 0), 1) and x = cubic_root_trig(z).
C24_UnclampedCubic ==
    Returned("bgcr_monthly") =>
        \A k \in Cells :
            /\ ratio_(k) = clampV(z_(k), 0, SC)
            /\ x_(k) = cubic_root_trigV(z_(k))

\* an element whose residual is above 1 (a negative w): the ratio is 1 and
\* x is not the root that the clamped residual would give.  (A residual
\* below 0 is indistinguishable from 0 after the clip of cubic_root_trig.)
C24_Witness ==
    /\ Returned("bgcr_monthly")
    /\ \E k \in Cells :
          /\ IsOrd(z_(k)) /\ z_(k) > SC
          /\ ratio_(k) = SC
          /\ x_(k) # cubic_root_trigV(SC)

\* the outputs <<E, beta_c, x, ratio>> of bgcr_monthly on the single element
\* with index k of the arguments broadcast to shape S
AloneAt(k, S) ==
    bgcr_monthly(Scalar(At(args[1], k, S)), Scalar(At(args[2], k, S)),
                 Scalar(At(args[3], k, S)), Scalar(At(args[4], k, S))).ret

\* C25: bgcr_monthly never raises for physically bad but well-shaped
\* inputs (negative precipitation, w far outside the calibrated range): it
\* returns E and the diagnostics, and every element holds what the
\* elementwise formulas give for that element alone, whatever the other
\* elements of the call are.
C25_NoRaiseElementwise ==
    (Finished("bgcr_monthly")
     /\ BroadcastableAll(<<args[1].shape, args[2].shape, args[3].shape, args[4].shape>>)) =>
        /\ err = "none"
        /\ Len(result) = 4
        /\ \A k \in 0..(Prod(result[2].shape) - 1) :
              \A i \in 1..4 :
                  At(result[i], k, result[2].shape) = AloneAt(k, result[2].shape)[i].data[1]

\* a call with a negative precipitation whose evaporation is nan, next to an
\* element with a positive finite evaporation
C25_Witness ==
    /\ Returned("bgcr_monthly")
    /\ \E k \in Cells : P_(k) < 0 /\ IsNaN(E_(k))
    /\ \E k \in Cells : P_(k) > 0 /\ IsOrd(E_(k)) /\ E_(k) > 0

\* the call of bgcr_monthly repeated with another radiation term
WithErad(e) == bgcr_monthly(args[1], args[2], Scalar(e), args[4])

\* C26: E and ratio of bgcr_monthly depend only on (P, Epa, w): a second
\* call that differs only in Erad returns the same E, ratio and x, so only
\* beta_c can differ; E is ratio * Epa, in which x has no part.
C26_EradOnlyInBetaC ==
    Returned("bgcr_monthly") =>
        /\ \A e \in DOMAIN EradVals :
              LET same(other) ==
                      other.err = "none" =>
                          /\ other.ret[1] = result[1]
                          /\ other.ret[3] = result[3]
                          /\ other.ret[4] = result[4]
              IN same(WithErad(EradVals[e]))
        /\ result[1] = ArrMul(result[4], args[2])

\* a call with a positive evaporation whose beta_c changes with Erad
C26_Witness ==
    /\ Returned("bgcr_monthly")
    /\ \E k \in Cells : IsOrd(E_(k)) /\ E_(k) > 0
    /\ \E e \in DOMAIN EradVals :
          LET differs(other) == other.err = "none" /\ other.ret[2] # result[2]
          IN differs(WithErad(EradVals[e]))

\* element k of bgcr_monthly's inputs has 0 < w <= 1, P >= 0 and Epa > 0
BelowOne(k) ==
    /\ IsOrd(w_(k)) /\ 0 < w_(k) /\ w_(k) <= SC
    /\ IsOrd(P_(k)) /\ P_(k) >= 0
    /\ IsOrd(Epa_(k)) /\ Epa_(k) > 0

C30_BothConstraints ==
    Returned("calculate_wet_bowen_ratio") =>
        /\ result[1] >= beta1(args[4], args[6])
        /\ result[1] <= beta_actual(args[1], args[2])

=============================================================================
